---- MODULE Spec2Model ----
(***************************************************************************)
(* Model of maze.py: the Maze grid, its recursive-backtracker generator    *)
(* (_break_walls_r) and its depth-first solver (solve_r).  Recursion is    *)
(* modelled by an explicit call stack; one action is one step of a call.   *)
(***************************************************************************)
EXTENDS Integers, Sequences, FiniteSets, TLC

VARIABLES
    num_rows,   \* Maze.num_rows
    num_cols,   \* Maze.num_cols
    seed,       \* Maze.seed: <<>> is None, <<n>> is the integer n
    cells,      \* Maze._cells: <<i, j>> -> the Cell's four wall flags and visited
    pc,         \* position of the main flow (Maze.__post_init__, then main's solve)
    stack,      \* call stack of _break_walls_r / solve_r frames, top is last
    ret,        \* return value of the solve_r call that returned last
    result,     \* return value of solve()
    entered,    \* cells _break_walls_r was entered for, in order
    picks,      \* index in to_visit of each random.choice result, in order
    breaks,     \* wall pairs broken by _break_walls_r, in order
    drawn,      \* cells rendered by _draw_cell, in order
    solveCalls, \* cells solve_r was entered for, in order
    moves,      \* Cell.draw_move calls <<from, to, undo>>, in order
    run,        \* number of the Maze construction in progress
    firstBreaks, \* breaks of the previous construction
    raised      \* the exception that ended the program, "none" while there is none

vars == <<num_rows, num_cols, seed, cells, pc, stack, ret, result, entered,
          picks, breaks, drawn, solveCalls, moves, run, firstBreaks, raised>>

\* ---------------------------------------------------------------- bounds
MaxRows == 3
MaxCols == 3
MaxSeed == 1
ArbMaxCells == 8
AnyMaxCells == 6
DeepCols == 1001

\* CPython's default recursion limit: a call that would nest deeper raises
\* RecursionError.  Only the frames of _break_walls_r / solve_r are counted, so
\* the model raises no earlier than the interpreter does.
RecursionLimit == 1000

Seeds == {<<>>} \cup {<<n>> : n \in 1..MaxSeed}

\* ---------------------------------------------------------------- grid
Grid == (0..(num_rows - 1)) \X (0..(num_cols - 1))

InBounds(p) ==
    ~(p[1] < 0 \/ p[2] < 0) /\ ~(p[1] >= num_rows \/ p[2] >= num_cols)

NewCell ==
    [has_left_wall |-> TRUE, has_right_wall |-> TRUE, has_top_wall |-> TRUE,
     has_bottom_wall |-> TRUE, visited |-> FALSE]

CreatedCells == [p \in Grid |-> NewCell]

Frame(i, j, at, d) == [i |-> i, j |-> j, at |-> at, d |-> d]

Top == stack[Len(stack)]

Pop == SubSeq(stack, 1, Len(stack) - 1)

SetTop(f) == [stack EXCEPT ![Len(stack)] = f]

\* Variants: the flag is not written; a wall flag is written with it.
MarkVisitedNever(c, i, j) == c

MarkVisitedOpensTop(c, i, j) ==
    [c EXCEPT ![<<i, j>>].visited = TRUE, ![<<i, j>>].has_top_wall = FALSE]

\* self._cells[i][j].visited = True
MarkVisited(c, i, j) == [c EXCEPT ![<<i, j>>].visited = TRUE]

\* ---------------------------------------------------------------- generator
\* self._cells[0][0] exists: the table has a row and the row has a cell.
HasFirstCell == num_rows >= 1 /\ num_cols >= 1

EntranceAndExitMisplaced(c) ==
    [c EXCEPT ![<<0, 0>>].has_top_wall = FALSE,
              ![<<num_rows - 1, 0>>].has_bottom_wall = FALSE]

EntranceAndExit(c) ==
    [[c EXCEPT ![<<0, 0>>].has_top_wall = FALSE]
        EXCEPT ![<<num_rows - 1, num_cols - 1>>].has_bottom_wall = FALSE]

NeighborsNoRight(i, j) ==
    << <<i - 1, j>>, <<i + 1, j>>, <<i, j - 1>>, <<i, j - 1>> >>

NeighborsRightFirst(i, j) ==
    << <<i, j + 1>>, <<i + 1, j>>, <<i, j - 1>>, <<i - 1, j>> >>

Neighbors(i, j) ==
    << <<i - 1, j>>, <<i + 1, j>>, <<i, j - 1>>, <<i, j + 1>> >>

\* to_visit computed once, when the cell was entered, and consumed choice by
\* choice instead of being enumerated again in each loop iteration.
ToVisitCached(c, i, j) ==
    LET at == CHOOSE k \in DOMAIN entered : entered[k] = <<i, j>>
        before == {entered[k] : k \in 1..at}
        chosen == {breaks[k][2] : k \in {n \in DOMAIN breaks : breaks[n][1] = <<i, j>>}}
    IN  SelectSeq(Neighbors(i, j),
                  LAMBDA p : InBounds(p) /\ p \notin before /\ p \notin chosen)

ToVisitIgnoresVisited(c, i, j) ==
    SelectSeq(Neighbors(i, j), LAMBDA p : InBounds(p))

ToVisit(c, i, j) ==
    SelectSeq(Neighbors(i, j), LAMBDA p : InBounds(p) /\ ~c[p].visited)

BreakWallNoUp(c, i, j, new_i, new_j) ==
    IF new_j > j THEN
        [c EXCEPT ![<<i, j>>].has_right_wall = FALSE,
                  ![<<new_i, new_j>>].has_left_wall = FALSE]
    ELSE IF new_j < j THEN
        [c EXCEPT ![<<i, j>>].has_left_wall = FALSE,
                  ![<<new_i, new_j>>].has_right_wall = FALSE]
    ELSE IF new_i > i THEN
        [c EXCEPT ![<<i, j>>].has_bottom_wall = FALSE,
                  ![<<new_i, new_j>>].has_top_wall = FALSE]
    ELSE c

BreakWallTwiceLeft(c, i, j, new_i, new_j) ==
    IF new_j > j THEN
        [c EXCEPT ![<<i, j>>].has_right_wall = FALSE,
                  ![<<new_i, new_j>>].has_left_wall = FALSE]
    ELSE IF new_j < j THEN
        [c EXCEPT ![<<i, j>>].has_left_wall = FALSE,
                  ![<<new_i, new_j>>].has_left_wall = FALSE]
    ELSE IF new_i > i THEN
        [c EXCEPT ![<<i, j>>].has_bottom_wall = FALSE,
                  ![<<new_i, new_j>>].has_top_wall = FALSE]
    ELSE IF new_i < i THEN
        [c EXCEPT ![<<i, j>>].has_top_wall = FALSE,
                  ![<<new_i, new_j>>].has_bottom_wall = FALSE]
    ELSE c

BreakWallOneSided(c, i, j, new_i, new_j) ==
    IF new_j > j THEN
        [c EXCEPT ![<<i, j>>].has_right_wall = FALSE,
                  ![<<new_i, new_j>>].has_left_wall = FALSE]
    ELSE IF new_j < j THEN
        [c EXCEPT ![<<i, j>>].has_left_wall = FALSE,
                  ![<<new_i, new_j>>].has_right_wall = FALSE]
    ELSE IF new_i > i THEN
        [c EXCEPT ![<<i, j>>].has_bottom_wall = FALSE]
    ELSE IF new_i < i THEN
        [c EXCEPT ![<<i, j>>].has_top_wall = FALSE,
                  ![<<new_i, new_j>>].has_bottom_wall = FALSE]
    ELSE c

BreakWall(c, i, j, new_i, new_j) ==
    IF new_j > j THEN
        [c EXCEPT ![<<i, j>>].has_right_wall = FALSE,
                  ![<<new_i, new_j>>].has_left_wall = FALSE]
    ELSE IF new_j < j THEN
        [c EXCEPT ![<<i, j>>].has_left_wall = FALSE,
                  ![<<new_i, new_j>>].has_right_wall = FALSE]
    ELSE IF new_i > i THEN
        [c EXCEPT ![<<i, j>>].has_bottom_wall = FALSE,
                  ![<<new_i, new_j>>].has_top_wall = FALSE]
    ELSE IF new_i < i THEN
        [c EXCEPT ![<<i, j>>].has_top_wall = FALSE,
                  ![<<new_i, new_j>>].has_bottom_wall = FALSE]
    ELSE c

ResetVisitedSkipFirstRow(c) ==
    [p \in DOMAIN c |-> IF p[1] >= 1 THEN [c[p] EXCEPT !.visited = FALSE] ELSE c[p]]

ResetVisited(c) ==
    [p \in DOMAIN c |-> [c[p] EXCEPT !.visited = FALSE]]

\* ---------------------------------------------------------------- solver
IsTargetOffByOne(i, j) ==
    i = num_rows /\ j = num_cols

IsTarget(i, j) ==
    i = num_rows - 1 /\ j = num_cols - 1

SolveNeighborsUpReadsBottom(c, i, j) ==
    << <<i - 1, j, c[<<i, j>>].has_bottom_wall>>,
       <<i + 1, j, c[<<i, j>>].has_bottom_wall>>,
       <<i, j - 1, c[<<i, j>>].has_left_wall>>,
       <<i, j + 1, c[<<i, j>>].has_right_wall>> >>

SolveNeighborsRightReadsLeft(c, i, j) ==
    << <<i - 1, j, c[<<i, j>>].has_top_wall>>,
       <<i + 1, j, c[<<i, j>>].has_bottom_wall>>,
       <<i, j - 1, c[<<i, j>>].has_left_wall>>,
       <<i, j + 1, c[<<i, j>>].has_left_wall>> >>

SolveNeighbors(c, i, j) ==
    << <<i - 1, j, c[<<i, j>>].has_top_wall>>,
       <<i + 1, j, c[<<i, j>>].has_bottom_wall>>,
       <<i, j - 1, c[<<i, j>>].has_left_wall>>,
       <<i, j + 1, c[<<i, j>>].has_right_wall>> >>

\* Variant: every line is drawn as a forward move.
DrawMoveNeverUndo(m, from, to, undo) == Append(m, <<from, to, FALSE>>)

\* Cell.draw_move: one more line on the canvas, red, or gray for an undo.
DrawMove(m, from, to, undo) == Append(m, <<from, to, undo>>)

\* Variant: the wall flag is not tested.
CanMoveThroughWalls(c, i, j, d) ==
    LET n == SolveNeighbors(c, i, j)[d]
    IN  /\ InBounds(<<n[1], n[2]>>)
        /\ ~c[<<n[1], n[2]>>].visited

\* The d-th direction is taken: in bounds, not visited, no wall.
CanMove(c, i, j, d) ==
    LET n == SolveNeighbors(c, i, j)[d]
    IN  /\ InBounds(<<n[1], n[2]>>)
        /\ ~c[<<n[1], n[2]>>].visited
        /\ ~n[3]

\* ---------------------------------------------------------------- Init
Init ==
    /\ num_rows \in -1..MaxRows
    /\ num_cols \in -1..MaxCols
    /\ seed \in Seeds
    /\ cells = <<>>
    /\ pc = "create_cells"
    /\ stack = <<>>
    /\ ret = "none"
    /\ result = "none"
    /\ entered = <<>>
    /\ picks = <<>>
    /\ breaks = <<>>
    /\ drawn = <<>>
    /\ solveCalls = <<>>
    /\ moves = <<>>
    /\ run = 1
    /\ firstBreaks = <<>>
    /\ raised = "none"

\* ---------------------------------------------------------------- construction
\* _create_cells, the two loops that build the table.
CreateCells ==
    /\ pc = "create_cells"
    /\ cells' = CreatedCells
    /\ pc' = "break_entrance_and_exit"
    /\ UNCHANGED <<num_rows, num_cols, seed, stack, ret, result, entered, picks,
                   breaks, drawn, solveCalls, moves, run, firstBreaks, raised>>

\* _break_entrance_and_exit; _cells[0][0] raises IndexError on an empty table.
BreakEntranceAndExit ==
    /\ pc = "break_entrance_and_exit"
    /\ IF HasFirstCell
       THEN /\ cells' = EntranceAndExit(cells)
            /\ pc' = "break_walls"
            /\ raised' = raised
       ELSE /\ cells' = cells
            /\ pc' = "error"
            /\ raised' = "IndexError"
    /\ UNCHANGED <<num_rows, num_cols, seed, stack, ret, result, entered, picks,
                   breaks, drawn, solveCalls, moves, run, firstBreaks>>

\* _create_cells calls self._break_walls_r(0, 0).
BreakWallsRoot ==
    /\ pc = "break_walls"
    /\ stack' = <<Frame(0, 0, "enter", 0)>>
    /\ pc' = "carving"
    /\ UNCHANGED <<num_rows, num_cols, seed, cells, ret, result, entered, picks,
                   breaks, drawn, solveCalls, moves, run, firstBreaks, raised>>

\* _break_walls_r, first statement: mark the cell visited.
BreakWallsEnter ==
    /\ pc = "carving"
    /\ stack # <<>>
    /\ Top.at = "enter"
    /\ cells' = MarkVisited(cells, Top.i, Top.j)
    /\ entered' = Append(entered, <<Top.i, Top.j>>)
    /\ stack' = SetTop([Top EXCEPT !.at = "loop"])
    /\ UNCHANGED <<num_rows, num_cols, seed, pc, ret, result, picks, breaks,
                   drawn, solveCalls, moves, run, firstBreaks, raised>>

\* _break_walls_r, a loop iteration that finds to_visit empty: draw and return.
BreakWallsReturn ==
    /\ pc = "carving"
    /\ stack # <<>>
    /\ Top.at = "loop"
    /\ ToVisit(cells, Top.i, Top.j) = <<>>
    /\ drawn' = Append(drawn, <<Top.i, Top.j>>)
    /\ stack' = Pop
    /\ pc' = IF Len(stack) = 1 THEN "reset_cells_visited" ELSE pc
    /\ UNCHANGED <<num_rows, num_cols, seed, cells, ret, result, entered, picks,
                   breaks, solveCalls, moves, run, firstBreaks, raised>>

\* _break_walls_r, a loop iteration that picks a neighbour with random.choice
\* (never seeded by the code), breaks the wall pair and recurses; the call
\* raises RecursionError, which nothing catches, at the recursion limit.
BreakWallsCarve ==
    /\ pc = "carving"
    /\ stack # <<>>
    /\ Top.at = "loop"
    /\ LET to_visit == ToVisit(cells, Top.i, Top.j)
       IN  /\ to_visit # <<>>
           /\ \E k \in 1..Len(to_visit) :
                LET new == to_visit[k]
                IN  /\ cells' = BreakWall(cells, Top.i, Top.j, new[1], new[2])
                    /\ picks' = Append(picks, k)
                    /\ breaks' = Append(breaks, <<<<Top.i, Top.j>>, new>>)
                    /\ IF Len(stack) >= RecursionLimit
                       THEN /\ stack' = <<>>
                            /\ pc' = "error"
                            /\ raised' = "RecursionError"
                       ELSE /\ stack' = Append(stack, Frame(new[1], new[2], "enter", 0))
                            /\ pc' = pc
                            /\ raised' = raised
    /\ UNCHANGED <<num_rows, num_cols, seed, ret, result, entered, drawn,
                   solveCalls, moves, run, firstBreaks>>

\* _reset_cells_visited; the construction of the Maze is finished after it.
ResetCellsVisited ==
    /\ pc = "reset_cells_visited"
    /\ cells' = ResetVisited(cells)
    /\ pc' = "constructed"
    /\ UNCHANGED <<num_rows, num_cols, seed, stack, ret, result, entered, picks,
                   breaks, drawn, solveCalls, moves, run, firstBreaks, raised>>

\* ---------------------------------------------------------------- solving
\* solve(): calls solve_r(0, 0).
Solve ==
    /\ pc = "constructed"
    /\ stack' = <<Frame(0, 0, "enter", 0)>>
    /\ ret' = "none"
    /\ pc' = "solving"
    /\ UNCHANGED <<num_rows, num_cols, seed, cells, result, entered, picks,
                   breaks, drawn, solveCalls, moves, run, firstBreaks, raised>>

\* solve_r up to the target test: animate, mark visited, return True at the target.
SolveEnter ==
    /\ pc = "solving"
    /\ stack # <<>>
    /\ Top.at = "enter"
    /\ cells' = MarkVisited(cells, Top.i, Top.j)
    /\ solveCalls' = Append(solveCalls, <<Top.i, Top.j>>)
    /\ IF IsTarget(Top.i, Top.j)
       THEN /\ stack' = Pop
            /\ ret' = "true"
       ELSE /\ stack' = SetTop([Top EXCEPT !.at = "loop", !.d = 1])
            /\ ret' = ret
    /\ UNCHANGED <<num_rows, num_cols, seed, pc, result, entered, picks, breaks,
                   drawn, moves, run, firstBreaks, raised>>

\* solve_r, a direction that is out of bounds, visited or walled: next direction.
SolveSkip ==
    /\ pc = "solving"
    /\ stack # <<>>
    /\ Top.at = "loop"
    /\ Top.d <= 4
    /\ ~CanMove(cells, Top.i, Top.j, Top.d)
    /\ stack' = SetTop([Top EXCEPT !.d = Top.d + 1])
    /\ UNCHANGED <<num_rows, num_cols, seed, cells, pc, ret, result, entered,
                   picks, breaks, drawn, solveCalls, moves, run, firstBreaks, raised>>

\* solve_r, a direction that is taken: draw the move and recurse; the call
\* raises RecursionError at the recursion limit.
SolveMove ==
    /\ pc = "solving"
    /\ stack # <<>>
    /\ Top.at = "loop"
    /\ Top.d <= 4
    /\ CanMove(cells, Top.i, Top.j, Top.d)
    /\ LET n == SolveNeighbors(cells, Top.i, Top.j)[Top.d]
       IN  /\ moves' = DrawMove(moves, <<Top.i, Top.j>>, <<n[1], n[2]>>, FALSE)
           /\ IF Len(stack) >= RecursionLimit
              THEN /\ stack' = <<>>
                   /\ pc' = "error"
                   /\ raised' = "RecursionError"
              ELSE /\ stack' = Append(SetTop([Top EXCEPT !.at = "call"]),
                                      Frame(n[1], n[2], "enter", 0))
                   /\ pc' = pc
                   /\ raised' = raised
    /\ UNCHANGED <<num_rows, num_cols, seed, cells, ret, result, entered,
                   picks, breaks, drawn, solveCalls, run, firstBreaks>>

\* solve_r, the recursive call returned False: draw the undo, next direction.
SolveUndo ==
    /\ pc = "solving"
    /\ stack # <<>>
    /\ Top.at = "call"
    /\ ret = "false"
    /\ LET n == SolveNeighbors(cells, Top.i, Top.j)[Top.d]
       IN  moves' = DrawMove(moves, <<Top.i, Top.j>>, <<n[1], n[2]>>, TRUE)
    /\ stack' = SetTop([Top EXCEPT !.at = "loop", !.d = Top.d + 1])
    /\ ret' = "none"
    /\ UNCHANGED <<num_rows, num_cols, seed, cells, pc, result, entered, picks,
                   breaks, drawn, solveCalls, run, firstBreaks, raised>>

\* solve_r, the recursive call returned True: return True.
SolvePropagate ==
    /\ pc = "solving"
    /\ stack # <<>>
    /\ Top.at = "call"
    /\ ret = "true"
    /\ stack' = Pop
    /\ UNCHANGED <<num_rows, num_cols, seed, cells, pc, ret, result, entered,
                   picks, breaks, drawn, solveCalls, moves, run, firstBreaks, raised>>

\* solve_r, the loop over the directions is exhausted: return False.
SolveFail ==
    /\ pc = "solving"
    /\ stack # <<>>
    /\ Top.at = "loop"
    /\ Top.d > 4
    /\ stack' = Pop
    /\ ret' = "false"
    /\ UNCHANGED <<num_rows, num_cols, seed, cells, pc, result, entered, picks,
                   breaks, drawn, solveCalls, moves, run, firstBreaks, raised>>

\* solve() returns what the root solve_r call returned.
SolveReturn ==
    /\ pc = "solving"
    /\ stack = <<>>
    /\ result' = ret
    /\ pc' = "done"
    /\ UNCHANGED <<num_rows, num_cols, seed, cells, stack, ret, entered, picks,
                   breaks, drawn, solveCalls, moves, run, firstBreaks, raised>>

\* ---------------------------------------------------------------- specifications
Next ==
    \/ CreateCells
    \/ BreakEntranceAndExit
    \/ BreakWallsRoot
    \/ BreakWallsEnter
    \/ BreakWallsReturn
    \/ BreakWallsCarve
    \/ ResetCellsVisited
    \/ Solve
    \/ SolveEnter
    \/ SolveSkip
    \/ SolveMove
    \/ SolveUndo
    \/ SolvePropagate
    \/ SolveFail
    \/ SolveReturn

Spec == Init /\ [][Next]_vars

\* A second construction of a Maze with the same num_rows, num_cols and seed,
\* started when the first one is finished.
Rerun ==
    /\ pc = "constructed"
    /\ run = 1
    /\ run' = 2
    /\ firstBreaks' = breaks
    /\ cells' = <<>>
    /\ pc' = "create_cells"
    /\ entered' = <<>>
    /\ picks' = <<>>
    /\ breaks' = <<>>
    /\ drawn' = <<>>
    /\ UNCHANGED <<num_rows, num_cols, seed, stack, ret, result, solveCalls, moves,
                   raised>>

NextTwin ==
    \/ Next
    \/ Rerun

SpecTwin == Init /\ [][NextTwin]_vars

\* ---------------------------------------------------------------- generation of a long corridor
\* Construction alone, of one-row grids: a short one and one of DeepCols cells.
InitDeep ==
    /\ num_rows = 1
    /\ num_cols \in {MaxCols, DeepCols}
    /\ seed = <<>>
    /\ cells = <<>>
    /\ pc = "create_cells"
    /\ stack = <<>>
    /\ ret = "none"
    /\ result = "none"
    /\ entered = <<>>
    /\ picks = <<>>
    /\ breaks = <<>>
    /\ drawn = <<>>
    /\ solveCalls = <<>>
    /\ moves = <<>>
    /\ run = 1
    /\ firstBreaks = <<>>
    /\ raised = "none"

NextDeep ==
    \/ CreateCells
    \/ BreakEntranceAndExit
    \/ BreakWallsRoot
    \/ BreakWallsEnter
    \/ BreakWallsReturn
    \/ BreakWallsCarve
    \/ ResetCellsVisited

\* The interpreter runs the single thread until it returns or raises.
SpecDeep == InitDeep /\ [][NextDeep]_vars /\ WF_vars(NextDeep)

\* ---------------------------------------------------------------- solver on any maze
\* The pairs of adjacent cells, each once: <<cell, its right or lower neighbour>>.
InteriorPairs ==
    {<<p, <<p[1], p[2] + 1>>>> : p \in (0..(num_rows - 1)) \X (0..(num_cols - 2))}
    \cup {<<p, <<p[1] + 1, p[2]>>>> : p \in (0..(num_rows - 2)) \X (0..(num_cols - 1))}

\* The grid whose open interior wall pairs are `open`, mirrored on both sides;
\* the boundary is as _break_entrance_and_exit leaves it, or open everywhere.
WallsOf(open, boundaryOpen) ==
    [p \in Grid |->
        [has_left_wall |->
            IF p[2] = 0 THEN ~boundaryOpen
            ELSE <<<<p[1], p[2] - 1>>, p>> \notin open,
         has_right_wall |->
            IF p[2] = num_cols - 1 THEN ~boundaryOpen
            ELSE <<p, <<p[1], p[2] + 1>>>> \notin open,
         has_top_wall |->
            IF p[1] = 0 THEN ~(boundaryOpen \/ p = <<0, 0>>)
            ELSE <<<<p[1] - 1, p[2]>>, p>> \notin open,
         has_bottom_wall |->
            IF p[1] = num_rows - 1
            THEN ~(boundaryOpen \/ p = <<num_rows - 1, num_cols - 1>>)
            ELSE <<p, <<p[1] + 1, p[2]>>>> \notin open,
         visited |-> FALSE]]

InitArb ==
    /\ num_rows \in 1..ArbMaxCells
    /\ num_cols \in 1..ArbMaxCells
    /\ num_rows * num_cols <= ArbMaxCells
    /\ seed = <<>>
    /\ \E open \in SUBSET InteriorPairs, boundaryOpen \in BOOLEAN :
            cells = WallsOf(open, boundaryOpen)
    /\ pc = "constructed"
    /\ stack = <<>>
    /\ ret = "none"
    /\ result = "none"
    /\ entered = <<>>
    /\ picks = <<>>
    /\ breaks = <<>>
    /\ drawn = <<>>
    /\ solveCalls = <<>>
    /\ moves = <<>>
    /\ run = 1
    /\ firstBreaks = <<>>
    /\ raised = "none"

NextArb ==
    \/ Solve
    \/ SolveEnter
    \/ SolveSkip
    \/ SolveMove
    \/ SolveUndo
    \/ SolvePropagate
    \/ SolveFail
    \/ SolveReturn

SpecArb == InitArb /\ [][NextArb]_vars

\* The ordered pairs of adjacent cells: <<cell, neighbour>>, both directions.
DirectedPairs ==
    InteriorPairs \cup {<<e[2], e[1]>> : e \in InteriorPairs}

\* The grid in which the wall of cell p that faces its neighbour q is open
\* exactly when <<p, q>> is in `open`: the two sides of a wall are independent.
OneSidedWallsOf(open, boundaryOpen) ==
    [p \in Grid |->
        [has_left_wall |->
            IF p[2] = 0 THEN ~boundaryOpen
            ELSE <<p, <<p[1], p[2] - 1>>>> \notin open,
         has_right_wall |->
            IF p[2] = num_cols - 1 THEN ~boundaryOpen
            ELSE <<p, <<p[1], p[2] + 1>>>> \notin open,
         has_top_wall |->
            IF p[1] = 0 THEN ~boundaryOpen
            ELSE <<p, <<p[1] - 1, p[2]>>>> \notin open,
         has_bottom_wall |->
            IF p[1] = num_rows - 1 THEN ~boundaryOpen
            ELSE <<p, <<p[1] + 1, p[2]>>>> \notin open,
         visited |-> FALSE]]

\* solve() on any assignment of the wall flags, all visited flags False.
InitAny ==
    /\ num_rows \in 1..AnyMaxCells
    /\ num_cols \in 1..AnyMaxCells
    /\ num_rows * num_cols <= AnyMaxCells
    /\ seed = <<>>
    /\ \E open \in SUBSET DirectedPairs, boundaryOpen \in BOOLEAN :
            cells = OneSidedWallsOf(open, boundaryOpen)
    /\ pc = "constructed"
    /\ stack = <<>>
    /\ ret = "none"
    /\ result = "none"
    /\ entered = <<>>
    /\ picks = <<>>
    /\ breaks = <<>>
    /\ drawn = <<>>
    /\ solveCalls = <<>>
    /\ moves = <<>>
    /\ run = 1
    /\ firstBreaks = <<>>
    /\ raised = "none"

SpecAny == InitAny /\ [][NextArb]_vars

\* ---------------------------------------------------------------- vocabulary of the properties
\* The wall flag of cell a on the side facing the adjacent cell b.
WallFacing(c, a, b) ==
    IF b[2] > a[2] THEN c[a].has_right_wall
    ELSE IF b[2] < a[2] THEN c[a].has_left_wall
    ELSE IF b[1] > a[1] THEN c[a].has_bottom_wall
    ELSE c[a].has_top_wall

PairOpen(c, a, b) == ~WallFacing(c, a, b) /\ ~WallFacing(c, b, a)

OpenPairs(c) == {pr \in InteriorPairs : PairOpen(c, pr[1], pr[2])}

\* The cells adjacent to a whose wall pair shared with a is open.
OpenNeighbors(c, a) ==
    {b \in {<<a[1] - 1, a[2]>>, <<a[1] + 1, a[2]>>, <<a[1], a[2] - 1>>, <<a[1], a[2] + 1>>} :
        InBounds(b) /\ PairOpen(c, a, b)}

\* Flood fill: S is the set of cells reached, F the cells reached last.
RECURSIVE Flood(_, _, _)
Flood(c, S, F) ==
    LET N == {b \in UNION {OpenNeighbors(c, a) : a \in F} : b \notin S}
        T == {b : b \in S \cup N}
    IN  IF Cardinality(T) = Cardinality(S) THEN S ELSE Flood(c, T, {b : b \in N})

Reach(c) == Flood(c, {<<0, 0>>}, {<<0, 0>>})

Range(s) == {s[k] : k \in DOMAIN s}

\* _create_cells has built the table of this construction.
CellsBuilt == pc # "create_cells"

GenerationFinished ==
    pc \in {"reset_cells_visited", "constructed", "solving", "done"}

\* The wall flags on the outer boundary, as <<cell, side>>.
BoundaryFlags ==
    {<<p, "top">> : p \in {q \in Grid : q[1] = 0}}
    \cup {<<p, "bottom">> : p \in {q \in Grid : q[1] = num_rows - 1}}
    \cup {<<p, "left">> : p \in {q \in Grid : q[2] = 0}}
    \cup {<<p, "right">> : p \in {q \in Grid : q[2] = num_cols - 1}}

Flag(c, f) ==
    IF f[2] = "top" THEN c[f[1]].has_top_wall
    ELSE IF f[2] = "bottom" THEN c[f[1]].has_bottom_wall
    ELSE IF f[2] = "left" THEN c[f[1]].has_left_wall
    ELSE c[f[1]].has_right_wall

Entrance == <<<<0, 0>>, "top">>

Exit == <<<<num_rows - 1, num_cols - 1>>, "bottom">>

\* ---------------------------------------------------------------- claims
\* C1 (connectivity): once generation has finished, every cell of the grid is
\* reachable from (0,0) through adjacent cells whose shared wall pair is open.
C1_Connectivity ==
    GenerationFinished => Reach(cells) = Grid

C1_Witness ==
    /\ pc = "constructed"
    /\ num_rows = 3 /\ num_cols = 3
    /\ Reach(cells) = Grid
    /\ \E k \in DOMAIN breaks : breaks[k][2][1] < breaks[k][1][1]

\* C2 (spanning tree): once generation has finished, the number of interior
\* wall pairs that are open is exactly num_rows * num_cols - 1.
C2_SpanningTreeCount ==
    GenerationFinished => Cardinality(OpenPairs(cells)) = num_rows * num_cols - 1

C2_Witness ==
    /\ pc = "constructed"
    /\ num_rows = 3 /\ num_cols = 3
    /\ Cardinality(OpenPairs(cells)) = 8
    /\ \E k \in DOMAIN breaks : breaks[k][2][2] < breaks[k][1][2]

\* C3 (solvability): solve() on a maze the generator produced returns True.
C3_Solvable ==
    pc = "done" => result = "true"

C3_Witness ==
    /\ pc = "done"
    /\ result = "true"
    /\ num_rows = 3 /\ num_cols = 3
    /\ \E k \in DOMAIN moves : moves[k][3]
    /\ \E k \in DOMAIN moves : ~moves[k][3] /\ moves[k][2][1] < moves[k][1][1]

\* C4 (mirrored walls): in every state, during generation and during and after
\* solving, for every pair of adjacent cells the wall flag of one on the side
\* facing the other is False exactly when the other's facing flag is False.
C4_MirroredWalls ==
    CellsBuilt =>
        \A pr \in InteriorPairs :
            WallFacing(cells, pr[1], pr[2]) = WallFacing(cells, pr[2], pr[1])

C4_Witness ==
    /\ pc = "solving"
    /\ Len(solveCalls) >= 2
    /\ \E pr \in InteriorPairs : PairOpen(cells, pr[1], pr[2]) /\ pr[2][1] > pr[1][1]
    /\ \E pr \in InteriorPairs : ~PairOpen(cells, pr[1], pr[2])

\* C5 (fixed openings): when generation has finished the top of (0,0) and the
\* bottom of (num_rows-1, num_cols-1) are open, and in every state every other
\* wall flag on the outer boundary is True.
C5_FixedOpenings ==
    /\ GenerationFinished => ~Flag(cells, Entrance) /\ ~Flag(cells, Exit)
    /\ CellsBuilt => \A f \in BoundaryFlags \ {Entrance, Exit} : Flag(cells, f)

C5_Witness ==
    /\ pc = "constructed"
    /\ num_rows = 2 /\ num_cols = 3
    /\ ~Flag(cells, Entrance) /\ ~Flag(cells, Exit)
    /\ Len(breaks) = 5

C7_SameSeedSameBreaks ==
    (seed # <<>> /\ run = 2 /\ GenerationFinished) => breaks = firstBreaks

\* C8 as stated (2x2, the chooser always picks the first candidate): the cells
\* are carved in the order (0,0), (0,1), (1,1), (1,0).
C8_OrderAsStated ==
    (/\ num_rows = 2 /\ num_cols = 2
     /\ GenerationFinished
     /\ \A k \in DOMAIN picks : picks[k] = 1)
    => /\ entered = << <<0, 0>>, <<0, 1>>, <<1, 1>>, <<1, 0>> >>
       /\ OpenPairs(cells) = { << <<0, 0>>, <<0, 1>> >>, << <<0, 1>>, <<1, 1>> >>,
                               << <<1, 0>>, <<1, 1>> >> }
       /\ ~Flag(cells, Entrance) /\ ~Flag(cells, Exit)

\* C8 (amended): with num_rows = 2, num_cols = 2 and a chooser that always picks
\* the first enumerated candidate (enumeration is up, down, left, right), the
\* cells are carved in the order (0,0), (1,0), (1,1), (0,1); the wall pairs
\* (0,0)-(1,0), (1,0)-(1,1) and (0,1)-(1,1) are open, the remaining interior
\* pair (0,0)-(0,1) is closed, the top of (0,0) and the bottom of (1,1) are open.
C8_FirstCandidateScenario ==
    (/\ num_rows = 2 /\ num_cols = 2
     /\ GenerationFinished
     /\ \A k \in DOMAIN picks : picks[k] = 1)
    => /\ entered = << <<0, 0>>, <<1, 0>>, <<1, 1>>, <<0, 1>> >>
       /\ breaks = << << <<0, 0>>, <<1, 0>> >>, << <<1, 0>>, <<1, 1>> >>,
                      << <<1, 1>>, <<0, 1>> >> >>
       /\ OpenPairs(cells) = { << <<0, 0>>, <<1, 0>> >>, << <<1, 0>>, <<1, 1>> >>,
                               << <<0, 1>>, <<1, 1>> >> }
       /\ ~PairOpen(cells, <<0, 0>>, <<0, 1>>)
       /\ WallFacing(cells, <<0, 0>>, <<0, 1>>)
       /\ WallFacing(cells, <<0, 1>>, <<0, 0>>)
       /\ ~Flag(cells, Entrance) /\ ~Flag(cells, Exit)

C8_Witness ==
    /\ num_rows = 2 /\ num_cols = 2
    /\ pc = "constructed"
    /\ picks = <<1, 1, 1>>

\* C9 (1x1): the single cell ends generation with its top and bottom walls open
\* and its left and right walls present, no interior wall is broken, and solve()
\* returns True from the first solve_r call with no move and no undo drawn.
C9_OneByOne ==
    (num_rows = 1 /\ num_cols = 1) =>
        /\ GenerationFinished =>
            /\ ~cells[<<0, 0>>].has_top_wall
            /\ ~cells[<<0, 0>>].has_bottom_wall
            /\ cells[<<0, 0>>].has_left_wall
            /\ cells[<<0, 0>>].has_right_wall
            /\ breaks = <<>>
        /\ pc = "done" =>
            /\ result = "true"
            /\ solveCalls = << <<0, 0>> >>
            /\ moves = <<>>

C9_Witness ==
    /\ num_rows = 1 /\ num_cols = 1
    /\ pc = "done"
    /\ result = "true"

\* C10 (phase ordering and visited reset): a step that resets a visited flag
\* or is a step of solve() is taken only when the root _break_walls_r call has
\* returned with every cell entered and rendered; _reset_cells_visited leaves
\* no cell visited whatever the flags were, and the first solve_r call starts
\* with no cell visited.
AllVisited == \A p \in Grid : cells[p].visited

NoneVisited == \A p \in Grid : ~cells[p].visited

RootReturnedComplete ==
    /\ GenerationFinished
    /\ Range(entered) = Grid
    /\ Range(drawn) = Grid

ResetsAVisitedFlag ==
    \E p \in DOMAIN cells \cap DOMAIN cells' : cells[p].visited /\ ~cells'[p].visited

SolveStep ==
    pc' = "solving" \/ solveCalls' # solveCalls \/ moves' # moves \/ result' # result

C10_PhaseOrdering ==
    /\ [][ResetsAVisitedFlag =>
            (pc = "reset_cells_visited" /\ stack = <<>> /\ AllVisited
             /\ RootReturnedComplete)]_vars
    /\ [][SolveStep => RootReturnedComplete]_vars
    /\ [](CellsBuilt => \A p \in Grid : ~ResetVisited(cells)[p].visited)
    /\ [](pc = "constructed" => NoneVisited)
    /\ []((pc = "solving" /\ solveCalls = <<>>) => NoneVisited)

C10_Witness ==
    /\ pc = "solving"
    /\ solveCalls = <<>>
    /\ num_rows = 3 /\ num_cols = 3
    /\ NoneVisited
    /\ Range(drawn) = Grid

\* C11 (each cell entered and rendered once): _break_walls_r is never entered
\* for a cell that is already visited, no cell is entered or drawn twice, and
\* when the root call has returned every cell was entered once and drawn once.
NoDup(s) == \A a, b \in DOMAIN s : a # b => s[a] # s[b]

C11_EachCellOnce ==
    CellsBuilt =>
        /\ NoDup(entered)
        /\ NoDup(drawn)
        /\ (pc = "carving" /\ stack # <<>> /\ Top.at = "enter") =>
                /\ ~cells[<<Top.i, Top.j>>].visited
                /\ <<Top.i, Top.j>> \notin Range(entered)
        /\ GenerationFinished =>
                /\ Len(entered) = num_rows * num_cols
                /\ Range(entered) = Grid
                /\ Len(drawn) = num_rows * num_cols
                /\ Range(drawn) = Grid

C11_Witness ==
    /\ pc = "reset_cells_visited"
    /\ num_rows = 3 /\ num_cols = 3
    /\ Len(entered) = 9
    /\ Len(drawn) = 9
    /\ drawn # entered

\* C12 (carving only toward unvisited cells): every step that breaks a wall pair
\* breaks it between the current cell and an in-bounds, axis-adjacent cell that
\* is not visited at that moment, changes no other cell, and the cell it breaks
\* toward was never entered before.
AxisAdjacent(a, b) ==
    \/ a[1] = b[1] /\ (b[2] = a[2] + 1 \/ b[2] = a[2] - 1)
    \/ a[2] = b[2] /\ (b[1] = a[1] + 1 \/ b[1] = a[1] - 1)

BreakStepTowardUnvisited ==
    breaks' # breaks =>
        /\ Len(breaks') = Len(breaks) + 1
        /\ LET b == breaks'[Len(breaks')]
           IN  /\ b[1] = <<Top.i, Top.j>>
               /\ InBounds(b[2])
               /\ AxisAdjacent(b[1], b[2])
               /\ ~cells[b[2]].visited
               /\ b[2] \notin Range(entered)
               /\ ~WallFacing(cells', b[1], b[2])
               /\ ~WallFacing(cells', b[2], b[1])
               /\ \A p \in Grid \ {b[1], b[2]} : cells'[p] = cells[p]

C12_CarveTowardUnvisited ==
    [][BreakStepTowardUnvisited]_vars

\* The current cell is back in its loop after a recursive call of its own that
\* visited another of its neighbours; the next enumeration leaves it out.
C12_Witness ==
    /\ pc = "carving"
    /\ num_rows = 3 /\ num_cols = 3
    /\ stack # <<>>
    /\ Top.at = "loop"
    /\ \E m \in DOMAIN breaks :
            /\ breaks[m][1] = <<Top.i, Top.j>>
            /\ \E k \in DOMAIN entered :
                    /\ k > m + 1
                    /\ AxisAdjacent(entered[k], <<Top.i, Top.j>>)
                    /\ entered[k] # breaks[m][2]

\* C13 (post-order rendering): a cell is drawn only by its own call, at a moment
\* when every in-bounds neighbour of it is visited; every cell it recursed into
\* is drawn before it (hence all its descendants in the DFS tree are); and the
\* root cell (0,0) is the last cell drawn.
InBoundsNeighbours(p) ==
    {q \in {<<p[1] - 1, p[2]>>, <<p[1] + 1, p[2]>>, <<p[1], p[2] - 1>>, <<p[1], p[2] + 1>>} :
        q \in Grid}

Position(s, x) == CHOOSE k \in DOMAIN s : s[k] = x

DrawStepAfterNeighbours ==
    drawn' # drawn =>
        /\ Len(drawn') = Len(drawn) + 1
        /\ LET x == drawn'[Len(drawn')]
           IN  /\ x = <<Top.i, Top.j>>
               /\ \A q \in InBoundsNeighbours(x) : cells[q].visited

ChildrenDrawnFirst ==
    \A k \in DOMAIN breaks :
        breaks[k][1] \in Range(drawn) =>
            /\ breaks[k][2] \in Range(drawn)
            /\ Position(drawn, breaks[k][2]) < Position(drawn, breaks[k][1])

RootDrawnLast ==
    GenerationFinished => drawn[Len(drawn)] = <<0, 0>>

C13_PostOrderRendering ==
    /\ [][DrawStepAfterNeighbours]_vars
    /\ [](CellsBuilt => ChildrenDrawnFirst)
    /\ [](CellsBuilt => RootDrawnLast)

C13_Witness ==
    /\ pc = "reset_cells_visited"
    /\ num_rows = 3 /\ num_cols = 3
    /\ drawn[Len(drawn)] = <<0, 0>>
    /\ \E m, n \in DOMAIN breaks : m # n /\ breaks[m][1] = breaks[n][1]

\* C18 (generation is total): on every grid with num_rows >= 1 and
\* num_cols >= 1 generation never reaches an error state and goes on until the
\* root _break_walls_r call has returned and the visited flags are reset.
C18_GenerationTotal ==
    (num_rows >= 1 /\ num_cols >= 1) =>
        /\ pc # "error"
        /\ pc = "constructed" \/ ENABLED NextDeep

\* C19 (invalid dimensions fail fast): with num_rows <= 0 or num_cols <= 0 the
\* construction ends in an InvalidDimension error raised at grid construction:
\* control never gets past _create_cells other than into that error, so no
\* degenerate grid is handed on, no wall is broken, no cell is visited or drawn.
C19_InvalidDimensionFailsFast ==
    ~HasFirstCell =>
        /\ pc \in {"create_cells", "error"}
        /\ pc = "error" => raised = "InvalidDimension"
        /\ breaks = <<>> /\ entered = <<>> /\ drawn = <<>>

\* ---------------------------------------------------------------- C14
\* The steps a solve_r frame still has to take by itself: per remaining
\* direction a skip, or a move and the return of its call; then `return False`.
RECURSIVE FrameWork(_)
FrameWork(s) ==
    IF s = <<>> THEN 0
    ELSE LET f == s[Len(s)]
             own == CASE f.at = "enter" -> 0
                      [] f.at = "loop"  -> 2 * (5 - f.d) + 1
                      [] f.at = "call"  -> 2 * (5 - f.d)
         IN  own + FrameWork(SubSeq(s, 1, Len(s) - 1))

\* A bound on the steps solve() still has to take: every cell not yet visited
\* can cost one whole solve_r call (the entry, four directions, the return).
SolveMeasure ==
    LET unvisited == {p \in Grid : ~cells[p].visited}
        phase == CASE pc = "constructed" -> 2
                   [] pc = "solving"     -> 1
                   [] OTHER              -> 0
    IN  10 * Cardinality(unvisited) + FrameWork(stack) + phase

SolveStepDecreases == SolveMeasure' < SolveMeasure

\* C14 (the solver never revisits and is bounded): during one solve() on any
\* assignment of the wall flags with every visited flag False at the start,
\* solve_r is entered at most once per cell and only on a cell not yet visited,
\* so there are at most num_rows * num_cols solve_r calls, and solve()
\* terminates: every step lowers a natural-number measure and the run can only
\* stop once solve() has returned.
C14_SolverNeverRevisits ==
    /\ [](NoDup(solveCalls))
    /\ [](Len(solveCalls) <= num_rows * num_cols)
    /\ []((pc = "solving" /\ stack # <<>> /\ Top.at = "enter") =>
              ~cells[<<Top.i, Top.j>>].visited)
    /\ [](SolveMeasure >= 0)
    /\ [][SolveStepDecreases]_vars
    /\ [](pc = "done" \/ ENABLED NextArb)

\* solve() has returned after a solve_r call on every one of six cells, a
\* failed branch among them.
C14_Witness ==
    /\ pc = "done"
    /\ num_rows * num_cols = 6
    /\ Len(solveCalls) = num_rows * num_cols
    /\ \E k \in DOMAIN moves : moves[k][3]

\* ---------------------------------------------------------------- C15
\* moves[k] is <<current cell, neighbour, undo>>, in the order of the draw_move calls.
Forwards == {k \in DOMAIN moves : ~moves[k][3]}
Undos    == {k \in DOMAIN moves : moves[k][3]}
SameSegment(a, b) == moves[a][1] = moves[b][1] /\ moves[a][2] = moves[b][2]

\* The undo of the forward draw f, if there is one.
UndoOf(f) == {k \in Undos : k > f /\ SameSegment(f, k)}

\* The cells of the subtree the forward draw f leads into, as far as drawn
\* before index k: the neighbour itself and every cell moved to in between.
SubtreeCells(f, k) ==
    {moves[f][2]} \cup {moves[x][2] : x \in {y \in Forwards : f < y /\ y < k}}

\* The forward draws not undone, in draw order.
RECURSIVE PendingFrom(_)
PendingFrom(k) ==
    IF k > Len(moves) THEN <<>>
    ELSE IF ~moves[k][3] /\ UndoOf(k) = {}
         THEN <<k>> \o PendingFrom(k + 1)
         ELSE PendingFrom(k + 1)

Pending == PendingFrom(1)

\* While calls are running, the open calls are exactly the forward draws not
\* undone: frame n drew the move into frame n + 1 before calling it, and a call
\* starts right after the draw of the move into it. When a call has just
\* returned False its move is still there, drawn from the caller and not undone.
ForwardBeforeCall ==
    /\ (pc = "solving" /\ ret = "none" /\ stack # <<>>) =>
          /\ Len(Pending) = Len(stack) - 1
          /\ \A n \in 1..Len(Pending) :
                /\ moves[Pending[n]][1] = <<stack[n].i, stack[n].j>>
                /\ moves[Pending[n]][2] = <<stack[n + 1].i, stack[n + 1].j>>
          /\ (Len(stack) >= 2 /\ Top.at = "enter") =>
                Pending[Len(Pending)] = Len(moves)
    /\ (pc = "solving" /\ ret = "false" /\ stack # <<>>) =>
          /\ Len(Pending) = Len(stack)
          /\ moves[Pending[Len(Pending)]][1] = <<Top.i, Top.j>>

\* An undo has its forward draw before it and is drawn once; between the two
\* every draw is inside the failed subtree and is itself undone there; after
\* the undo nothing is drawn from a cell of that subtree.
UndoAfterSubtree ==
    \A k \in Undos :
        /\ \E f \in Forwards : f < k /\ SameSegment(f, k)
        /\ \A l \in Undos : SameSegment(k, l) => l = k
        /\ \A f \in Forwards : (f < k /\ SameSegment(f, k)) =>
              /\ \A x \in (f + 1)..(k - 1) :
                    /\ moves[x][1] \in SubtreeCells(f, x)
                    /\ ~moves[x][3] => \E u \in UndoOf(x) : u < k
              /\ \A x \in (k + 1)..Len(moves) :
                    moves[x][1] \notin SubtreeCells(f, k)

\* Two forward draws from the same cell: the earlier one is undone in between.
UndoBeforeSibling ==
    \A f, g \in Forwards :
        (f < g /\ moves[f][1] = moves[g][1]) => \E k \in UndoOf(f) : k < g

\* A segment is drawn forward at most once.
ForwardOnce == \A f, g \in Forwards : SameSegment(f, g) => f = g

\* C15 (solver draw ordering): for every segment <<current cell, neighbour>>
\* the forward move is drawn before the recursive call into the neighbour; when
\* that call fails the undo of the same segment is drawn after the forward draw
\* and after everything drawn inside the failed subtree, and before the forward
\* draw of any later direction from the same cell; an undo is drawn only for a
\* segment whose forward move was drawn, and at most once per segment.
C15_DrawOrdering ==
    /\ ForwardBeforeCall
    /\ UndoAfterSubtree
    /\ UndoBeforeSibling
    /\ ForwardOnce

\* A failed branch two moves deep was undone, innermost first, and the same
\* cell then drew a move in a later direction.
C15_Witness ==
    \E f \in Forwards :
        /\ f + 4 <= Len(moves)
        /\ ~moves[f + 1][3] /\ moves[f + 1][1] = moves[f][2]
        /\ moves[f + 2][3] /\ SameSegment(f + 1, f + 2)
        /\ moves[f + 3][3] /\ SameSegment(f, f + 3)
        /\ ~moves[f + 4][3] /\ moves[f + 4][1] = moves[f][1]

\* ---------------------------------------------------------------- C16
WallFlags(c) ==
    <<c.has_left_wall, c.has_right_wall, c.has_top_wall, c.has_bottom_wall>>

\* solve() is about to be called or is running.
SolverRunning == pc \in {"constructed", "solving"} /\ raised = "none"

\* A step of solve() leaves the walls and the True visited flags alone; when
\* it writes at all, it is the entry of a solve_r call marking its own cell.
SolveFrameStep ==
    SolverRunning =>
        /\ \A p \in Grid : WallFlags(cells'[p]) = WallFlags(cells[p])
        /\ \A p \in Grid : cells[p].visited => cells'[p].visited
        /\ cells' # cells =>
              /\ pc = "solving" /\ stack # <<>> /\ Top.at = "enter"
              /\ cells' = [cells EXCEPT ![<<Top.i, Top.j>>].visited = TRUE]
              /\ solveCalls' = Append(solveCalls, <<Top.i, Top.j>>)

\* The cells solve_r was called on are the visited ones, failed branches included.
VisitedAreTheEntered ==
    (pc \in {"solving", "done"} /\ raised = "none") =>
        \A p \in Grid : cells[p].visited <=> (\E k \in DOMAIN solveCalls : solveCalls[k] = p)

\* C16 (solver frame condition): solve() and solve_r change no wall flag of
\* any cell and never change a visited flag from True to False; the only cell
\* state they write is visited = True on the cell a solve_r call enters, and
\* that stays True when the branch fails and its move is undone.
C16_SolverFrame ==
    /\ [][SolveFrameStep]_vars
    /\ [](VisitedAreTheEntered)

\* solve() has returned and a cell whose branch failed and was undone is visited.
C16_Witness ==
    /\ pc = "done"
    /\ \E k \in DOMAIN moves :
          /\ moves[k][3]
          /\ cells[moves[k][2]].visited

\* ---------------------------------------------------------------- C17
\* The cells along the forward draws that were not undone: the cell the first
\* one starts from, then the cell each one leads to; (0,0) alone without any.
DrawnPath ==
    <<<<0, 0>>>> \o [n \in 1..Len(Pending) |-> moves[Pending[n]][2]]

\* Each forward draw not undone starts from the cell the one before led to.
DrawnPathLinked ==
    \A n \in 1..Len(Pending) : moves[Pending[n]][1] = DrawnPath[n]

\* C17 (the drawn solution is the path): when solve() has returned True the
\* forward segments drawn and never undone form, in draw order, one simple path
\* from (0,0) to (num_rows-1, num_cols-1) whose consecutive cells are adjacent
\* with an open wall between them; when solve() has returned False every
\* forward segment drawn has been undone.
C17_DrawnSolutionIsThePath ==
    (pc = "done") =>
        /\ result = "true" =>
              /\ DrawnPathLinked
              /\ DrawnPath[1] = <<0, 0>>
              /\ DrawnPath[Len(DrawnPath)] = <<num_rows - 1, num_cols - 1>>
              /\ NoDup(DrawnPath)
              /\ \A n \in 1..(Len(DrawnPath) - 1) :
                    /\ AxisAdjacent(DrawnPath[n], DrawnPath[n + 1])
                    /\ PairOpen(cells, DrawnPath[n], DrawnPath[n + 1])
        /\ result = "false" => Pending = <<>>

\* solve() returned True with a path of five cells left after an undone branch.
C17_Witness ==
    /\ pc = "done"
    /\ result = "true"
    /\ Len(DrawnPath) >= 5
    /\ Undos # {}

====
